---- MODULE Spec2Model ----
(***************************************************************************)
(* The ai-report edge function (supabase/functions/ai-report/index.ts):    *)
(* five provider adapters tried in a fixed order by the serve handler,     *)
(* the last of them polling an asynchronous job.  Every await of the       *)
(* source is a step of the model; what the outside world answers at an     *)
(* await (HTTP status, body, network fault) is an input of that step.      *)
(* The page that calls the function (Index, `analyze`) is modelled after    *)
(* the handler, with its fallback to window.puter.                         *)
(***************************************************************************)
EXTENDS Integers, Sequences, FiniteSets, TLC

VARIABLES
    env,        \* Deno.env: credential name -> value (undefined when absent)
    pc,         \* per request: the await the handler is suspended at
    reqBody,    \* per request: what req.json() settled with
    k,          \* per request: index of the adapter the for-of loop is at
    results,    \* per request: the handler's `results` array
    compl,      \* per request: how the last adapter call ended
    endpoint,   \* per request: tryReplicate's `endpoint`
    i,          \* per request: tryReplicate's loop counter
    body,       \* per request: the parsed body the adapter is deciding on
    response,   \* per request: the Response returned by the handler
    invoked,    \* per request, per provider: calls of the adapter function
    calls,      \* per request, per provider: fetch() calls issued
    reads,      \* per request: status reads issued by tryReplicate
    polled,     \* per request: the URLs the status reads were issued against
    delays,     \* per request: setTimeout delays started by tryReplicate
    check,      \* per request: HTTP status of the status read's Response `check`
    client      \* the page's analyze call: position, locals, what the user sees

vars == <<env, pc, reqBody, k, results, compl, endpoint, i, body, response,
          invoked, calls, reads, polled, delays, check, client>>

-----------------------------------------------------------------------------
(* Bounds of the model. *)

\* longest string the outside world puts in a text field
MaxLen == 1
\* longest array the job provider puts in `output`
MaxArr == 2

\* the iteration cap of the polling loop
MaxPolls == 30
Reqs == {"r1", "r2"}

-----------------------------------------------------------------------------
(* JavaScript values.  A string is a sequence of tokens (characters, or    *)
(* whole words where only equality matters); every value is a record of    *)
(* the same shape so that any two can be compared.                         *)

Chars == {"x", " "}
NL == "\n"

TextUpTo(n) == UNION {[1..m -> Chars] : m \in 0..n}

JUndef == [t |-> "undefined", s |-> <<>>, a |-> <<>>, n |-> 0]
JNull == [t |-> "null", s |-> <<>>, a |-> <<>>, n |-> 0]
JStr(s) == [t |-> "string", s |-> s, a |-> <<>>, n |-> 0]
JNum(n) == [t |-> "number", s |-> <<>>, a |-> <<>>, n |-> n]
JArr(a) == [t |-> "array", s |-> <<>>, a |-> a, n |-> 0]

\* ToBoolean: what `!v` and `if (v)` test
Truthy(v) ==
    CASE v.t = "string" -> v.s # <<>>
      [] v.t = "number" -> v.n # 0
      [] v.t = "array" -> TRUE
      [] OTHER -> FALSE

Digits(n) == <<ToString(n)>>

RECURSIVE Join(_, _)
\* Array.prototype.join over an array of strings
Join(a, sep) ==
    IF a = <<>> THEN <<>>
    ELSE IF Len(a) = 1 THEN a[1]
    ELSE a[1] \o <<sep>> \o Join(Tail(a), sep)

\* v?.toString(): undefined for null/undefined, else the value's toString()
OptToString(v) ==
    CASE v.t = "string" -> JStr(v.s)
      [] v.t = "number" -> JStr(Digits(v.n))
      [] v.t = "array" -> JStr(Join(v.a, ","))
      [] OTHER -> JUndef

\* String(v ?? "")
StringOrEmpty(v) ==
    CASE v.t = "string" -> JStr(v.s)
      [] v.t = "number" -> JStr(Digits(v.n))
      [] v.t = "array" -> JStr(Join(v.a, ","))
      [] OTHER -> JStr(<<>>)

\* JSON.stringify of a value
Stringify(v) ==
    CASE v.t = "string" -> <<"\"">> \o v.s \o <<"\"">>
      [] v.t = "number" -> Digits(v.n)
      [] v.t = "array" -> <<"[">> \o Join([j \in 1..Len(v.a) |-> <<"\"">> \o v.a[j] \o <<"\"">>], ",") \o <<"]">>
      [] OTHER -> <<"null">>

IsWhitespace(s) == \A j \in 1..Len(s) : s[j] \in {" ", NL}

-----------------------------------------------------------------------------
(* The providers, in the order of the handler's `attempts` array. *)

attempts == <<"openai", "openrouter", "gemini", "huggingface", "replicate">>

Providers == {attempts[j] : j \in 1..Len(attempts)}

\* the name each adapter reads its credential under
EnvKey(p) ==
    CASE p = "openai" -> "OPENAI_API_KEY"
      [] p = "openrouter" -> "OPENROUTER_API_KEY"
      [] p = "gemini" -> "GOOGLE_GEMINI_API_KEY"
      [] p = "huggingface" -> "HUGGING_FACE_ACCESS_TOKEN"
      [] p = "replicate" -> "REPLICATE_API_KEY"

\* the name each adapter gives itself in its error messages
Label(p) ==
    CASE p = "openai" -> "OpenAI"
      [] p = "openrouter" -> "OpenRouter"
      [] p = "gemini" -> "Gemini"
      [] p = "huggingface" -> "HuggingFace"
      [] p = "replicate" -> "Replicate"

\* what Deno.env.get can return: undefined, or the string that was set
CredValues == {JUndef, JStr(<<"key">>)}

-----------------------------------------------------------------------------
(* Adapter results and completions. *)

NoError == "<undefined>"

Success(p, text) == [ok |-> TRUE, provider |-> p, text |-> text, error |-> NoError]

Failure(p, err) == [ok |-> FALSE, provider |-> p, text |-> JUndef, error |-> err]

NoOutcome == [ok |-> FALSE, provider |-> "", text |-> JUndef, error |-> NoError]

\* new Error(msg), a TypeError, a SyntaxError
MkError(name, msg) == [name |-> name, message |-> msg]

NoErr == MkError("", "")

\* String(error)
StringOfError(e) == e.name \o ": " \o e.message

\* how a piece of an async function ends: it returns a value, throws, or
\* suspends at its next await
Return(o) == [kind |-> "return", val |-> o, err |-> NoErr]

Throw(e) == [kind |-> "throw", val |-> NoOutcome, err |-> e]

Await == [kind |-> "await", val |-> NoOutcome, err |-> NoErr]

NoCompl == [kind |-> "none", val |-> NoOutcome, err |-> NoErr]

\* Catch with the try/catch lost: the throw leaves the adapter
CatchNothing(p, c) == c

\* the adapters' `catch (error) { return { ok: false, provider, error: String(error) } }`
Catch(p, c) ==
    IF c.kind = "throw" THEN Return(Failure(p, StringOfError(c.err))) ELSE c

-----------------------------------------------------------------------------
(* What the outside world answers. *)

\* a settled fetch(): rejected (network fault), or a Response with a status
FetchResults == {[fault |-> TRUE, status |-> 0]} \cup {[fault |-> FALSE, status |-> st] : st \in {200, 500}}

\* Response.ok
ResOk(res) == res.status >= 200 /\ res.status <= 299

\* a parsed JSON body, reduced to the fields the adapters read.  For shape
\* "array" generated_text and summary_text are those of element 0.
BlankData ==
    [shape |-> "object", content |-> JUndef, text |-> JUndef,
     generated_text |-> JUndef, summary_text |-> JUndef,
     urlsGet |-> JUndef, status |-> JUndef, output |-> JUndef]

NullData == [BlankData EXCEPT !.shape = "null"]

\* no parsed body at hand
NoData == [BlankData EXCEPT !.shape = "none"]

ScalarValues == {JUndef, JNull, JNum(0)} \cup {JStr(s) : s \in TextUpTo(MaxLen)}

\* Response.json(): rejected (not JSON), or the parsed data
Unparseable == [parsed |-> FALSE, data |-> NoData]

Parsed(d) == [parsed |-> TRUE, data |-> d]

ChatBodies == {Parsed(NullData)} \cup {Parsed([BlankData EXCEPT !.content = v]) : v \in ScalarValues}

GeminiBodies == {Parsed(NullData)} \cup {Parsed([BlankData EXCEPT !.text = v]) : v \in ScalarValues}

HFValues == {JUndef} \cup {JStr(s) : s \in TextUpTo(MaxLen)}

HFBodies ==
    {Parsed(NullData)} \cup
    {Parsed([BlankData EXCEPT !.shape = sh, !.generated_text = g, !.summary_text = m]) :
        sh \in {"array", "object"}, g \in HFValues, m \in HFValues}

\* the status URL the job provider hands out for the job of request r
JobUrl(r) == <<"https://api.replicate.com/v1/predictions/", r>>

SubmitBodies(r) ==
    {Parsed(NullData)} \cup
    {Parsed([BlankData EXCEPT !.urlsGet = u]) : u \in {JUndef, JStr(<<>>), JStr(JobUrl(r))}}

\* the segments of an `output` array
Segments == {<<>>, <<"x">>}

ArraysUpTo(n) == UNION {[1..m -> Segments] : m \in 0..n}

OutputValues == ScalarValues \cup {JArr(a) : a \in ArraysUpTo(MaxArr)}

\* body.status of a job that is not finished: absent, or "processing"
PendingStatuses == {JUndef, JStr(<<"processing">>)}

StatusBodies ==
    {Parsed(NullData)}
    \cup {Parsed([BlankData EXCEPT !.status = st]) : st \in PendingStatuses \cup {JStr(<<"failed">>), JStr(<<"canceled">>)}}
    \cup {Parsed([BlankData EXCEPT !.status = JStr(<<"succeeded">>), !.output = o]) : o \in OutputValues}

\* what the first res.json() of adapter p can settle with, in request r
BodiesOf(p, r) ==
    {Unparseable} \cup
    CASE p \in {"openai", "openrouter"} -> ChatBodies
      [] p = "gemini" -> GeminiBodies
      [] p = "huggingface" -> HFBodies
      [] p = "replicate" -> SubmitBodies(r)

-----------------------------------------------------------------------------
(* The adapters: tryOpenAI, tryOpenRouter, tryGemini, tryHuggingFace and   *)
(* tryReplicate, cut at their awaits.                                      *)

\* CheckCredential with the early return lost: the fetch goes out anyway
CheckCredentialLate(p, cred) == Await

\* `const KEY = Deno.env.get(...); if (!KEY) return {ok: false, ...}`, and
\* otherwise the fetch() the adapter suspends at
CheckCredential(p, cred) ==
    IF ~Truthy(cred)
    THEN Return(Failure(p, EnvKey(p) \o " not set"))
    ELSE Await

\* `await fetch(...)` settles: `if (!res.ok) throw new Error(...)`, and
\* otherwise the res.json() the adapter suspends at
AfterFetch(p, res) ==
    IF res.fault THEN Throw(MkError("TypeError", "error sending request"))
    ELSE IF ~ResOk(res) THEN Throw(MkError("Error", Label(p) \o " HTTP " \o ToString(res.status)))
    ELSE Await

\* data?.choices?.[0]?.message?.content?.toString()
ExtractChat(data) == OptToString(data.content)

\* data?.candidates?.[0]?.content?.parts?.[0]?.text?.toString()
ExtractGemini(data) == OptToString(data.text)

\* JSON.stringify(data) of a Hugging Face body
StringifyData(data) ==
    LET member(name, v) == IF v.t = "undefined" THEN <<>> ELSE << <<"\"", name, "\":">> \o Stringify(v) >>
        obj == <<"{">> \o Join(member("generated_text", data.generated_text)
                                \o member("summary_text", data.summary_text), ",") \o <<"}">>
    IN  CASE data.shape = "null" -> <<"null">>
          [] data.shape = "array" -> <<"[">> \o obj \o <<"]">>
          [] OTHER -> obj

\* ExtractHuggingFace without the JSON.stringify fallback
ExtractHuggingFaceStrict(data) ==
    IF data.shape = "array" /\ Truthy(data.generated_text) THEN data.generated_text
    ELSE IF data.shape = "object" /\ Truthy(data.generated_text) THEN data.generated_text
    ELSE IF data.shape = "array" /\ Truthy(data.summary_text) THEN data.summary_text
    ELSE JStr(<<>>)

\* the if / else-if chain that picks tryHuggingFace's `text`
ExtractHuggingFace(data) ==
    IF data.shape = "array" /\ Truthy(data.generated_text) THEN data.generated_text
    ELSE IF data.shape = "object" /\ Truthy(data.generated_text) THEN data.generated_text
    ELSE IF data.shape = "array" /\ Truthy(data.summary_text) THEN data.summary_text
    ELSE JStr(StringifyData(data))

\* the text a synchronous adapter takes out of its parsed body
Extract(p, data) ==
    CASE p \in {"openai", "openrouter"} -> ExtractChat(data)
      [] p = "gemini" -> ExtractGemini(data)
      [] p = "huggingface" -> ExtractHuggingFace(data)

\* TextOrThrow with the `!text` test lost
TextUnchecked(p, text, what) == Return(Success(p, text))

\* TextOrThrow testing `!text.trim()`
TextTrimmed(p, text, what) ==
    IF ~Truthy(text) \/ (text.t = "string" /\ IsWhitespace(text.s))
    THEN Throw(MkError("Error", Label(p) \o " empty " \o what))
    ELSE Return(Success(p, text))

\* `if (!text) throw new Error("... empty response"); return {ok: true, ...}`
TextOrThrow(p, text, what) ==
    IF ~Truthy(text) THEN Throw(MkError("Error", Label(p) \o " empty " \o what))
    ELSE Return(Success(p, text))

\* `await res.json()` settles in a synchronous adapter
AfterJson(p, js) ==
    IF ~js.parsed THEN Throw(MkError("SyntaxError", "Unexpected token"))
    ELSE TextOrThrow(p, Extract(p, js.data), "response")

\* prediction?.urls?.get
StatusUrlOf(data) == data.urlsGet

\* AfterSubmitJson with the test of `endpoint` lost
AfterSubmitJsonUnchecked(js) ==
    IF ~js.parsed THEN Throw(MkError("SyntaxError", "Unexpected token")) ELSE Await

\* `await res.json()` settles in tryReplicate:
\* `if (!endpoint) throw new Error("Replicate missing status URL")`
AfterSubmitJson(js) ==
    IF ~js.parsed THEN Throw(MkError("SyntaxError", "Unexpected token"))
    ELSE IF ~Truthy(StatusUrlOf(js.data)) THEN Throw(MkError("Error", "Replicate missing status URL"))
    ELSE Await

\* LoopContinues with the bound lost: `for (;;)`
LoopForever(n) == TRUE

\* LoopContinues off by one: `i <= 30`
LoopContinuesInclusive(n) == n <= MaxPolls

\* the loop test `i < 30`
LoopContinues(n) == n < MaxPolls

\* the loop head: another status read, or `throw new Error("Replicate timeout")`
LoopHead(n) ==
    IF LoopContinues(n) THEN Await ELSE Throw(MkError("Error", "Replicate timeout"))

\* Array.isArray(output) ? output.join("\n") : String(output ?? "")
OutputText(output) ==
    IF output.t = "array" THEN JStr(Join(output.a, NL)) ELSE StringOrEmpty(output)

IsStatus(data, w) == data.status = JStr(<<w>>)

\* AfterStatusJson that polls on only for a status it is given: a body
\* without one ends the call
AfterStatusJsonStatusNeeded(js) ==
    IF ~js.parsed THEN Throw(MkError("SyntaxError", "Unexpected token"))
    ELSE IF js.data.shape = "null" THEN Throw(MkError("TypeError", "Cannot read properties of null"))
    ELSE IF IsStatus(js.data, "succeeded") THEN TextOrThrow("replicate", OutputText(js.data.output), "output")
    ELSE IF IsStatus(js.data, "failed") \/ IsStatus(js.data, "canceled")
         THEN Throw(MkError("Error", "Replicate " \o js.data.status.s[1]))
    ELSE IF js.data.status = JUndef THEN Throw(MkError("Error", "Replicate unknown status"))
    ELSE Await

\* AfterStatusJson with "canceled" forgotten: it is polled on like a pending job
AfterStatusJsonFailedOnly(js) ==
    IF ~js.parsed THEN Throw(MkError("SyntaxError", "Unexpected token"))
    ELSE IF js.data.shape = "null" THEN Throw(MkError("TypeError", "Cannot read properties of null"))
    ELSE IF IsStatus(js.data, "succeeded") THEN TextOrThrow("replicate", OutputText(js.data.output), "output")
    ELSE IF IsStatus(js.data, "failed")
         THEN Throw(MkError("Error", "Replicate " \o js.data.status.s[1]))
    ELSE Await

\* `const body = await check.json()` settles, and the if / else-if on
\* body.status; Await is the setTimeout delay
AfterStatusJson(js) ==
    IF ~js.parsed THEN Throw(MkError("SyntaxError", "Unexpected token"))
    ELSE IF js.data.shape = "null" THEN Throw(MkError("TypeError", "Cannot read properties of null"))
    ELSE IF IsStatus(js.data, "succeeded") THEN TextOrThrow("replicate", OutputText(js.data.output), "output")
    ELSE IF IsStatus(js.data, "failed") \/ IsStatus(js.data, "canceled")
         THEN Throw(MkError("Error", "Replicate " \o js.data.status.s[1]))
    ELSE Await


-----------------------------------------------------------------------------
(* The serve handler. *)

NoResponse ==
    [status |-> 0, json |-> FALSE, error |-> NoError, details |-> NoError,
     provider |-> NoError, text |-> JUndef, attempts |-> <<>>]

\* new Response(null, { headers: corsHeaders })
PreflightResponse == [NoResponse EXCEPT !.status = 200]

\* status 400
ValidationResponse ==
    [NoResponse EXCEPT !.status = 400, !.json = TRUE, !.error = "Missing 'prompt' string in body"]

\* JSON.stringify({ provider: r.provider, text: r.text }), default status
SuccessResponse(o) ==
    [NoResponse EXCEPT !.status = 200, !.json = TRUE, !.provider = o.provider, !.text = o.text]

\* status 502
AllFailedResponse(log) ==
    [NoResponse EXCEPT !.status = 502, !.json = TRUE, !.error = "All providers failed", !.attempts = log]

\* no catch in the handler: its promise rejects and no Response is made
Propagated(e) ==
    [NoResponse EXCEPT !.error = "uncaught", !.details = StringOfError(e)]

\* the handler's catch: status 500
UnexpectedResponse(e) ==
    [NoResponse EXCEPT !.status = 500, !.json = TRUE, !.error = "Unexpected error",
                       !.details = StringOfError(e)]

\* { provider: r.provider, error: r.error }
LogEntry(o) == [provider |-> o.provider, error |-> o.error]

\* Push at the wrong end of the array (unshift)
PushFront(log, entry) == <<entry>> \o log

\* results.push(entry)
Push(log, entry) == Append(log, entry)

\* StopsAt testing the outcome, not its `ok`: `if (r)`
StopsAlways(o) == TRUE

\* StopsAt with the test lost: the loop goes on after a success
StopsNever(o) == FALSE

\* `if (r.ok)`: the loop is left with the 200
StopsAt(o) == o.ok

\* `for (const attempt of attempts)`: is there an adapter after the j-th
HasNext(j) == j < Len(attempts)

\* the iteration taking the same adapter again
NextIndexAgain(j) == j

\* the iteration passing over an adapter
NextIndexSkip(j) == IF j + 2 <= Len(attempts) THEN j + 2 ELSE j + 1

\* `for (const attempt of attempts)`: the adapter tried after the j-th
NextIndex(j) == j + 1

\* what req.json() can settle with: rejected, null, another JSON value that
\* has no property `prompt`, or an object and its `prompt`
\* (no adapter looks into the prompt, so one valid prompt stands for all)
PromptValues ==
    {JUndef, JNull, JNum(0), JNum(1), JArr(<<>>), JStr(<<>>), JStr(<<"x">>)}

NoBody == [parsed |-> FALSE, shape |-> "none", prompt |-> JUndef]

RequestBodies ==
    {[parsed |-> FALSE, shape |-> "text", prompt |-> JUndef],
     [parsed |-> TRUE, shape |-> "null", prompt |-> JUndef],
     [parsed |-> TRUE, shape |-> "number", prompt |-> JUndef]}
    \cup {[parsed |-> TRUE, shape |-> "object", prompt |-> v] : v \in PromptValues}

Methods == {"OPTIONS", "POST"}

\* InvalidPrompt without the typeof test
InvalidPromptLax(v) == ~Truthy(v)

\* `!prompt || typeof prompt !== "string"`
InvalidPrompt(v) == ~Truthy(v) \/ v.t # "string"

\* `const { prompt } = (await req.json())` and the validation that follows:
\* the Response returned, or NoResponse when the fallback loop is entered
AfterRequestJson(b) ==
    IF ~b.parsed THEN UnexpectedResponse(MkError("SyntaxError", "Unexpected end of JSON input"))
    ELSE IF b.shape = "null" THEN UnexpectedResponse(MkError("TypeError", "Cannot destructure property 'prompt'"))
    ELSE IF InvalidPrompt(b.prompt) THEN ValidationResponse
    ELSE NoResponse

Zero == [p \in Providers |-> 0]

\* the page before analyze is called: loading false, output ""
NoClient ==
    [pc |-> "idle", prompt |-> <<>>, puter |-> FALSE, error |-> "", loading |-> FALSE,
     output |-> <<>>, toast |-> "", invokes |-> 0, chats |-> 0]

InitOf(active) ==
    /\ env \in [{EnvKey(p) : p \in Providers} -> CredValues]
    /\ pc = [r \in Reqs |-> IF r \in active THEN "idle" ELSE "off"]
    /\ reqBody = [r \in Reqs |-> NoBody]
    /\ k = [r \in Reqs |-> 0]
    /\ results = [r \in Reqs |-> <<>>]
    /\ compl = [r \in Reqs |-> NoCompl]
    /\ endpoint = [r \in Reqs |-> JUndef]
    /\ i = [r \in Reqs |-> 0]
    /\ body = [r \in Reqs |-> NoData]
    /\ response = [r \in Reqs |-> NoResponse]
    /\ invoked = [r \in Reqs |-> Zero]
    /\ calls = [r \in Reqs |-> Zero]
    /\ reads = [r \in Reqs |-> 0]
    /\ polled = [r \in Reqs |-> {}]
    /\ delays = [r \in Reqs |-> 0]
    /\ check = [r \in Reqs |-> 0]
    /\ client = NoClient

Init == InitOf({"r1"})

\* the handler returns `resp`; its locals are gone with it
Finish(r, resp) ==
    /\ response' = [response EXCEPT ![r] = resp]
    /\ pc' = [pc EXCEPT ![r] = "done"]
    /\ k' = [k EXCEPT ![r] = 0]
    /\ results' = [results EXCEPT ![r] = <<>>]
    /\ endpoint' = [endpoint EXCEPT ![r] = JUndef]
    /\ i' = [i EXCEPT ![r] = 0]

\* a request arrives: the OPTIONS test, then `await req.json()`
Receive(r) ==
    /\ pc[r] = "idle"
    /\ \E m \in Methods :
         IF m = "OPTIONS"
         THEN Finish(r, PreflightResponse)
         ELSE /\ pc' = [pc EXCEPT ![r] = "reqjson"]
              /\ UNCHANGED <<response, k, results, endpoint, i>>
    /\ UNCHANGED <<check, client, env, reqBody, compl, body, invoked, calls, reads, polled, delays>>

\* req.json() settles: destructuring, validation, and entry into the loop
ParseBodyOf(r, bodies) ==
    /\ pc[r] = "reqjson"
    /\ \E b \in bodies :
         LET resp == AfterRequestJson(b) IN
         /\ reqBody' = [reqBody EXCEPT ![r] = b]
         /\ IF resp # NoResponse
            THEN Finish(r, resp)
            ELSE /\ k' = [k EXCEPT ![r] = 1]
                 /\ pc' = [pc EXCEPT ![r] = "loop"]
                 /\ UNCHANGED <<response, results, endpoint, i>>
    /\ UNCHANGED <<check, client, env, compl, body, invoked, calls, reads, polled, delays>>

\* a request from any caller: any body
ParseBody(r) == ParseBodyOf(r, RequestBodies)

\* the call of adapter p ends with completion c0 on parsed body `data`: the
\* adapter's own catch, then the handler resumes from `await attempt(prompt)`
\* with the 200 on success, the push and the next adapter on failure, the
\* 502 after the last adapter, and the handler's own catch if the call threw
EndCall(r, p, c0, data) ==
    LET c == Catch(p, c0) IN
    /\ compl' = [compl EXCEPT ![r] = c]
    /\ body' = [body EXCEPT ![r] = data]
    /\ IF c.kind = "throw" THEN Finish(r, UnexpectedResponse(c.err))
       ELSE IF StopsAt(c.val) THEN Finish(r, SuccessResponse(c.val))
       ELSE IF HasNext(k[r])
       THEN /\ results' = [results EXCEPT ![r] = Push(@, LogEntry(c.val))]
            /\ k' = [k EXCEPT ![r] = NextIndex(@)]
            /\ pc' = [pc EXCEPT ![r] = "loop"]
            /\ endpoint' = [endpoint EXCEPT ![r] = JUndef]
            /\ i' = [i EXCEPT ![r] = 0]
            /\ UNCHANGED response
       ELSE Finish(r, AllFailedResponse(Push(results[r], LogEntry(c.val))))

\* `const r = await attempt(prompt)`: the adapter is called and runs to its
\* first await (the fetch) or returns at once
Invoke(r) ==
    /\ pc[r] = "loop"
    /\ LET p == attempts[k[r]]
           c == CheckCredential(p, env[EnvKey(p)])
       IN  /\ invoked' = [invoked EXCEPT ![r][p] = @ + 1]
           /\ IF c.kind = "await"
              THEN /\ calls' = [calls EXCEPT ![r][p] = @ + 1]
                   /\ pc' = [pc EXCEPT ![r] = "fetch"]
                   /\ compl' = [compl EXCEPT ![r] = NoCompl]
                   /\ body' = [body EXCEPT ![r] = NoData]
                   /\ UNCHANGED <<response, k, results, endpoint, i>>
              ELSE /\ EndCall(r, p, c, NoData)
                   /\ UNCHANGED calls
    /\ UNCHANGED <<check, client, env, reqBody, reads, polled, delays>>

\* the adapter's fetch() settles
FetchReturn(r) ==
    /\ pc[r] = "fetch"
    /\ LET p == attempts[k[r]] IN
       \E res \in FetchResults :
         LET c == AfterFetch(p, res) IN
         IF c.kind = "await"
         THEN /\ pc' = [pc EXCEPT ![r] = "json"]
              /\ UNCHANGED <<compl, body, response, k, results, endpoint, i>>
         ELSE EndCall(r, p, c, NoData)
    /\ UNCHANGED <<check, client, env, reqBody, invoked, calls, reads, polled, delays>>

\* `endpoint` as one variable of the module: the URL of whichever job was
\* submitted, not the call's own
EndpointShared(r) ==
    IF \E q \in Reqs \ {r} : Truthy(endpoint[q])
    THEN endpoint[CHOOSE q \in Reqs \ {r} : Truthy(endpoint[q])]
    ELSE endpoint[r]

\* `const endpoint` of the call of tryReplicate made for request r
EndpointOf(r) == endpoint[r]

\* tryReplicate issues `fetch(endpoint, ...)` against the URL `url`
StatusRead(r, url) ==
    /\ reads' = [reads EXCEPT ![r] = @ + 1]
    /\ polled' = [polled EXCEPT ![r] = @ \cup {url}]
    /\ pc' = [pc EXCEPT ![r] = "pollfetch"]

\* the loop head of tryReplicate with loop counter n and status URL `url`
EnterLoop(r, n, url) ==
    LET c == LoopHead(n) IN
    IF c.kind = "await"
    THEN /\ StatusRead(r, url.s)
         /\ endpoint' = [endpoint EXCEPT ![r] = url]
         /\ i' = [i EXCEPT ![r] = n]
         /\ body' = [body EXCEPT ![r] = NoData]
         /\ check' = [check EXCEPT ![r] = 0]
         /\ UNCHANGED <<compl, response, k, results>>
    ELSE /\ EndCall(r, "replicate", c, NoData)
         /\ check' = [check EXCEPT ![r] = 0]
         /\ UNCHANGED <<reads, polled>>

\* the adapter's res.json() settles
JsonReturn(r) ==
    /\ pc[r] = "json"
    /\ LET p == attempts[k[r]] IN
       \E js \in BodiesOf(p, r) :
         IF p # "replicate"
         THEN /\ EndCall(r, p, AfterJson(p, js), js.data)
              /\ UNCHANGED <<check, reads, polled>>
         ELSE LET c == AfterSubmitJson(js) IN
              IF c.kind = "await"
              THEN EnterLoop(r, 0, StatusUrlOf(js.data))
              ELSE /\ EndCall(r, p, c, js.data)
                   /\ UNCHANGED <<check, reads, polled>>
    /\ UNCHANGED <<client, env, reqBody, invoked, calls, delays>>

\* a status read's fetch() settles; `check.ok` is not looked at
PollFetchReturn(r) ==
    /\ pc[r] = "pollfetch"
    /\ \E res \in FetchResults :
         IF res.fault
         THEN /\ EndCall(r, "replicate", Throw(MkError("TypeError", "error sending request")), NoData)
              /\ UNCHANGED check
         ELSE /\ pc' = [pc EXCEPT ![r] = "polljson"]
              /\ check' = [check EXCEPT ![r] = res.status]
              /\ UNCHANGED <<compl, body, response, k, results, endpoint, i>>
    /\ UNCHANGED <<client, env, reqBody, invoked, calls, reads, polled, delays>>

\* a status read's check.json() settles; on a pending status the delay starts
PollJsonReturn(r) ==
    /\ pc[r] = "polljson"
    /\ \E js \in StatusBodies \cup {Unparseable} :
         LET c == AfterStatusJson(js) IN
         IF c.kind = "await"
         THEN /\ delays' = [delays EXCEPT ![r] = @ + 1]
              /\ pc' = [pc EXCEPT ![r] = "delay"]
              /\ body' = [body EXCEPT ![r] = js.data]
              /\ UNCHANGED <<check, compl, response, k, results, endpoint, i>>
         ELSE /\ EndCall(r, "replicate", c, js.data)
              /\ check' = [check EXCEPT ![r] = 0]
              /\ UNCHANGED delays
    /\ UNCHANGED <<client, env, reqBody, invoked, calls, reads, polled>>

\* the setTimeout promise settles: `i++`, then the loop head
DelayReturn(r) ==
    /\ pc[r] = "delay"
    /\ EnterLoop(r, i[r] + 1, EndpointOf(r))
    /\ UNCHANGED <<client, env, reqBody, invoked, calls, delays>>

Next ==
    \E r \in Reqs :
        \/ Receive(r)
        \/ ParseBody(r)
        \/ Invoke(r)
        \/ FetchReturn(r)
        \/ JsonReturn(r)
        \/ PollFetchReturn(r)
        \/ PollJsonReturn(r)
        \/ DelayReturn(r)

Spec == Init /\ [][Next]_vars

\* what the runtime guarantees a request that has arrived: every promise the
\* handler awaits (req.json(), fetch(), json(), the timer) settles and the
\* handler is resumed.  The arrival of a request is not guaranteed.
Resumes(r) ==
    \/ ParseBody(r)
    \/ Invoke(r)
    \/ FetchReturn(r)
    \/ JsonReturn(r)
    \/ PollFetchReturn(r)
    \/ PollJsonReturn(r)
    \/ DelayReturn(r)

\* the deployments with at most one of the four synchronous providers
\* configured (replicate configured or not): what the earlier adapters
\* logged has no part in what the polling loop does
LiveInit ==
    /\ InitOf({"r1"})
    /\ Cardinality({p \in Providers \ {"replicate"} : Truthy(env[EnvKey(p)])}) <= 1

LiveSpec == LiveInit /\ [][Next]_vars /\ \A r \in Reqs : WF_vars(Resumes(r))

\* two requests in flight at once, in a deployment where only replicate is
\* configured: every adapter is called, and both requests poll a job
ConcInit ==
    /\ InitOf(Reqs)
    /\ \A p \in Providers : Truthy(env[EnvKey(p)]) <=> p = "replicate"

ConcSpec == ConcInit /\ [][Next]_vars

-----------------------------------------------------------------------------
(* The page (Index): `analyze` calls the edge function through             *)
(* supabase.functions.invoke and, when that reports an error, window.puter. *)
(* The request of the page is r1.                                           *)

TheRequest == "r1"

\* `!prompt.trim()`
EmptyPrompt(text) == IsWhitespace(text)

\* JSON.stringify({ prompt }) as the handler's req.json() reads it back
BodyOfPrompt(text) == [parsed |-> TRUE, shape |-> "object", prompt |-> JStr(text)]

FetchFailed == [name |-> "FunctionsFetchError", message |-> "Failed to send a request to the Edge Function"]

HttpFailed == [name |-> "FunctionsHttpError", message |-> "Edge Function returned a non-2xx status code"]

\* what supabase.functions.invoke resolves with for the Response `resp` of the
\* edge function: { data, error: null } when resp.ok, and { data: null, error }
\* with a FunctionsHttpError for every other status
InvokeResult(resp) ==
    IF resp.status \in 200..299
    THEN [data |-> resp, error |-> NoErr]
    ELSE [data |-> NoResponse, error |-> HttpFailed]

\* Throws with the test lost: the catch block runs after every invoke
ThrowsAlways(res) == TRUE

\* `if (error) throw error`
Throws(res) == res.error # NoErr

\* what p.ai.chat can settle with: rejected, or a text
ChatResults ==
    {[threw |-> TRUE, text |-> JUndef]} \cup
    {[threw |-> FALSE, text |-> v] : v \in {JUndef, JStr(<<>>), JStr(<<"x">>)}}

\* `finally { setLoading(false) }` with the toast shown and the output set
Leave(c, toast, output) ==
    [c EXCEPT !.pc = "done", !.loading = FALSE, !.toast = toast, !.output = output]

\* the catch block entered with `err`: p.ai.chat is called when it exists,
\* else `throw err` lands in the inner catch and its toast
CatchBlock(c, err) ==
    IF c.puter
    THEN [c EXCEPT !.pc = "chat", !.error = err.name, !.chats = @ + 1]
    ELSE Leave([c EXCEPT !.error = err.name], err.message, c.output)

\* invoke has resolved with `res`
AfterInvoke(c, res) ==
    IF Throws(res)
    THEN CatchBlock(c, res.error)
    ELSE Leave(c, "Analyzed via " \o res.data.provider, res.data.text.s)

MessageOf(name) == IF name = FetchFailed.name THEN FetchFailed.message ELSE HttpFailed.message

ClientInit ==
    /\ InitOf({})
    /\ Cardinality({p \in Providers : Truthy(env[EnvKey(p)])}) <= 1
    /\ \A p \in Providers : Truthy(env[EnvKey(p)]) => p \in {"openai", "replicate"}

ServerUnchanged ==
    UNCHANGED <<env, pc, reqBody, k, results, compl, endpoint, i, body, response,
                invoked, calls, reads, polled, delays, check>>

\* the button is pressed with `text` in the textarea, window.puter present
\* or not
Analyze ==
    /\ client.pc = "idle"
    /\ \E text \in TextUpTo(MaxLen), puter \in BOOLEAN :
         LET c == [client EXCEPT !.prompt = text, !.puter = puter] IN
         client' = IF EmptyPrompt(text)
                   THEN [c EXCEPT !.pc = "done", !.toast = "Please enter some text to analyze"]
                   ELSE [c EXCEPT !.pc = "invoke", !.loading = TRUE, !.output = <<>>,
                                  !.invokes = @ + 1]
    /\ ServerUnchanged

\* the POST of invoke reaches the edge function
Deliver ==
    /\ client.pc = "invoke"
    /\ pc[TheRequest] = "off"
    /\ pc' = [pc EXCEPT ![TheRequest] = "reqjson"]
    /\ UNCHANGED <<client, env, reqBody, k, results, compl, endpoint, i, body, response,
                   invoked, calls, reads, polled, delays, check>>

\* the handler's req.json() settles with the body the page sent
ParseClientBody(r) ==
    /\ r = TheRequest
    /\ ParseBodyOf(r, {BodyOfPrompt(client.prompt)})

\* the fetch of invoke fails (network, CORS, connection lost): the request
\* may or may not have reached the edge function
InvokeFails ==
    /\ client.pc = "invoke"
    /\ client' = AfterInvoke(client, [data |-> NoResponse, error |-> FetchFailed])
    /\ ServerUnchanged

\* the Response of the edge function arrives and invoke resolves
InvokeReturns ==
    /\ client.pc = "invoke"
    /\ pc[TheRequest] = "done"
    /\ client' = AfterInvoke(client, InvokeResult(response[TheRequest]))
    /\ ServerUnchanged

\* p.ai.chat settles
ChatReturn ==
    /\ client.pc = "chat"
    /\ \E res \in ChatResults :
         client' = IF ~res.threw /\ Truthy(res.text)
                   THEN Leave(client, "Analyzed via Puter.js fallback", res.text.s)
                   ELSE Leave(client, MessageOf(client.error), client.output)
    /\ ServerUnchanged

ClientNext ==
    \/ Analyze
    \/ Deliver
    \/ InvokeFails
    \/ InvokeReturns
    \/ ChatReturn
    \/ \E r \in Reqs :
          \/ ParseClientBody(r)
          \/ Invoke(r)
          \/ FetchReturn(r)
          \/ JsonReturn(r)
          \/ PollFetchReturn(r)
          \/ PollJsonReturn(r)
          \/ DelayReturn(r)

ClientSpec == ClientInit /\ [][ClientNext]_vars

-----------------------------------------------------------------------------
(* Properties. *)

\* position of provider p in the order
IndexOf(p) == CHOOSE j \in 1..Len(attempts) : attempts[j] = p

Returned(r) == compl[r].kind = "return"

Succeeded(r) == Returned(r) /\ compl[r].val.ok

Failed(r) == Returned(r) /\ ~compl[r].val.ok

\* the step is one in which an adapter call of request r ended
CallEnds(r) ==
    /\ pc[r] \in {"loop", "fetch", "json", "pollfetch", "polljson", "delay"}
    /\ <<pc[r], k[r]>> # <<pc'[r], k'[r]>>
    /\ compl'[r].kind # "none"

\* C1: when adapter K is the first to return Success, the request is answered
\* at once with HTTP 200 carrying K's provider id and K's text, every adapter
\* up to K has been called exactly once and no adapter after K is ever called
\* (no call of the function, no fetch, and no status read unless K is the last).
C1_FirstSuccessWins ==
    \A r \in Reqs :
        Succeeded(r) =>
            LET o == compl[r].val
                K == IndexOf(o.provider)
            IN  /\ o.provider \in Providers
                /\ pc[r] = "done"
                /\ response[r].status = 200
                /\ response[r].json
                /\ response[r].provider = o.provider
                /\ response[r].text = o.text
                /\ \A j \in 1..Len(attempts) :
                     /\ j <= K => invoked[r][attempts[j]] = 1
                     /\ j > K => invoked[r][attempts[j]] = 0 /\ calls[r][attempts[j]] = 0
                /\ K < Len(attempts) => reads[r] = 0 /\ delays[r] = 0

C1_Witness ==
    /\ pc["r1"] = "done"
    /\ response["r1"].status = 200
    /\ response["r1"].provider = "gemini"
    /\ response["r1"].text = JStr(<<"x">>)
    /\ invoked["r1"]["openrouter"] = 1
    /\ invoked["r1"]["huggingface"] = 0

\* the entry the handler logs for a failure
EntryOf(o) == [provider |-> o.provider, error |-> o.error]

C2_Final ==
    \A r \in Reqs :
        response[r].status = 502 =>
            /\ response[r].json
            /\ response[r].error = "All providers failed"
            /\ Len(response[r].attempts) = 5
            /\ \A j \in 1..5 : response[r].attempts[j].provider = attempts[j]
            /\ \A p \in Providers : invoked[r][p] = 1
            /\ Failed(r)
            /\ response[r].attempts[5] = EntryOf(compl[r].val)

C2_Step ==
    \A r \in Reqs :
        /\ (CallEnds(r) /\ compl'[r].kind = "return" /\ ~compl'[r].val.ok) =>
              IF pc'[r] = "done"
              THEN /\ response'[r].status = 502
                   /\ response'[r].attempts = Append(results[r], EntryOf(compl'[r].val))
              ELSE /\ results'[r] = Append(results[r], EntryOf(compl'[r].val))
                   /\ response'[r] = response[r]
        /\ results'[r] # results[r] =>
              \/ pc'[r] = "done" /\ results'[r] = <<>>
              \/ CallEnds(r) /\ compl'[r].kind = "return" /\ ~compl'[r].val.ok

\* C2: when every adapter returns Failure the answer is HTTP 502 with error
\* "All providers failed" and exactly 5 attempts in the order openai,
\* openrouter, gemini, huggingface, replicate; every entry was appended, at
\* the end of the log, when its adapter returned and carries the provider id
\* and reason that adapter returned, and the log is never changed otherwise.
C2_AllFailed == [](C2_Final) /\ [][C2_Step]_vars

C2_Witness ==
    /\ response["r1"].status = 502
    /\ Len(response["r1"].attempts) = 5
    /\ response["r1"].attempts[1].error = "Error: OpenAI HTTP 500"
    /\ response["r1"].attempts[2].error = "OPENROUTER_API_KEY not set"
    /\ response["r1"].attempts[5].error = "Error: Replicate canceled"

\* the reasons adapter p can fail with, by failure path
FailureReasons(p) ==
    {EnvKey(p) \o " not set",
     "TypeError: error sending request",
     "Error: " \o Label(p) \o " HTTP 500",
     "SyntaxError: Unexpected token",
     "Error: " \o Label(p) \o " empty response"}
    \cup IF p # "replicate" THEN {}
         ELSE {"Error: Replicate missing status URL",
               "TypeError: Cannot read properties of null",
               "Error: Replicate empty output",
               "Error: Replicate failed",
               "Error: Replicate canceled",
               "Error: Replicate timeout"}

\* C3: no adapter call ever ends in a throw: on every failure path the
\* adapter returns a Failure that carries its own provider id and the reason
\* of that path, and the handler goes on to the next adapter (or, after the
\* last one, answers 502); the handler's 500 is never caused by an adapter.
C3_AdapterNeverRaises ==
    \A r \in Reqs :
        /\ compl[r].kind \in {"none", "return"}
        /\ (response[r].status = 500 => compl[r].kind = "none" /\ \A p \in Providers : invoked[r][p] = 0)
        /\ Failed(r) =>
             LET o == compl[r].val IN
             /\ o.provider \in Providers
             /\ o.error \in FailureReasons(o.provider)
             /\ invoked[r][o.provider] = 1
             /\ IF IndexOf(o.provider) < Len(attempts)
                THEN pc[r] = "loop" /\ k[r] = IndexOf(o.provider) + 1
                ELSE pc[r] = "done" /\ response[r].status = 502

C3_Witness ==
    /\ response["r1"].status = 502
    /\ Len(response["r1"].attempts) = 5
    /\ response["r1"].attempts[1] = [provider |-> "openai", error |-> "OPENAI_API_KEY not set"]
    /\ response["r1"].attempts[2] = [provider |-> "openrouter", error |-> "TypeError: error sending request"]
    /\ response["r1"].attempts[3] = [provider |-> "gemini", error |-> "Error: Gemini HTTP 500"]
    /\ response["r1"].attempts[4] = [provider |-> "huggingface", error |-> "SyntaxError: Unexpected token"]
    /\ response["r1"].attempts[5] = [provider |-> "replicate", error |-> "Error: Replicate timeout"]

Pending(d) == d.shape = "object" /\ d.status \in PendingStatuses

TimedOut(r) == Failed(r) /\ compl[r].val = Failure("replicate", "Error: Replicate timeout")

C4_Counts ==
    \A r \in Reqs :
        /\ reads[r] <= 30
        /\ delays[r] <= 30
        /\ pc[r] \in {"pollfetch", "polljson"} => i[r] < 30 /\ reads[r] = i[r] + 1 /\ delays[r] = i[r]
        /\ pc[r] = "delay" => i[r] < 30 /\ reads[r] = i[r] + 1 /\ delays[r] = i[r] + 1 /\ Pending(body[r])
        /\ TimedOut(r) => reads[r] = 30 /\ delays[r] = 30 /\ response[r].status = 502
        /\ (pc[r] = "done" /\ body[r].status = JStr(<<"succeeded">>) /\ body[r].output = JStr(<<"x">>)) =>
              /\ compl[r] = Return(Success("replicate", JStr(<<"x">>)))
              /\ response[r].status = 200
              /\ response[r].text = JStr(<<"x">>)
              /\ delays[r] = reads[r] - 1

C4_Step ==
    \A r \in Reqs :
        /\ (pc[r] = "polljson" /\ pc'[r] = "delay") =>
              reads'[r] = reads[r] /\ delays'[r] = delays[r] + 1
        /\ (pc[r] = "delay" /\ pc'[r] # "delay") =>
              IF reads[r] < 30
              THEN pc'[r] = "pollfetch" /\ reads'[r] = reads[r] + 1 /\ delays'[r] = delays[r]
              ELSE TimedOut(r)' /\ reads'[r] = reads[r] /\ delays'[r] = delays[r]

\* C4: the polling loop of replicate reads the status at most 30 times, one
\* read and at most one delay per iteration; a pending read is followed by
\* the next read as long as fewer than 30 reads were made and by the timeout
\* Failure after the 30th, so the timeout comes after exactly 30 reads; a
\* read that answers succeeded with output "x" (the 30th included) makes the
\* adapter return Success with text "x".
C4_PollingBudget == [](C4_Counts) /\ [][C4_Step]_vars

C4_Witness ==
    /\ pc["r1"] = "done"
    /\ response["r1"].status = 200
    /\ response["r1"].provider = "replicate"
    /\ response["r1"].text = JStr(<<"x">>)
    /\ reads["r1"] = 30
    /\ delays["r1"] = 29

\* C5: an adapter called while its credential is absent issues no network
\* call (no fetch, and for replicate no status read and no delay), fails with
\* the reason "<credential name> not set", and the adapters after it are
\* still called: the request ends with a later adapter's 200 or with the
\* 502 of all five, never with a 500.
C5_MissingCredential ==
    \A r \in Reqs : \A p \in Providers :
        (invoked[r][p] > 0 /\ env[EnvKey(p)] = JUndef) =>
            LET K == IndexOf(p)
                e == [provider |-> p, error |-> EnvKey(p) \o " not set"]
            IN  /\ calls[r][p] = 0
                /\ p = "replicate" => reads[r] = 0 /\ delays[r] = 0 /\ polled[r] = {}
                /\ pc[r] # "done" => k[r] > K /\ Len(results[r]) >= K /\ results[r][K] = e
                /\ pc[r] = "done" =>
                     \/ /\ response[r].status = 200
                        /\ IndexOf(response[r].provider) > K
                     \/ /\ response[r].status = 502
                        /\ response[r].attempts[K] = e
                        /\ \A q \in Providers : invoked[r][q] = 1

C5_Witness ==
    /\ env["OPENAI_API_KEY"] = JUndef
    /\ env["GOOGLE_GEMINI_API_KEY"] = JUndef
    /\ pc["r1"] = "done"
    /\ response["r1"].status = 200
    /\ response["r1"].provider = "huggingface"
    /\ calls["r1"] = [Zero EXCEPT !["openrouter"] = 1, !["huggingface"] = 1]

\* the request body has no usable prompt: it is JSON, and its prompt is
\* missing (also when the body is not an object), empty or not a string
LacksPrompt(b) ==
    /\ b.parsed
    /\ \/ b.shape # "object"
       \/ b.prompt.t # "string"
       \/ b.prompt = JStr(<<>>)

\* C6: a POST whose JSON body lacks a usable prompt is answered with HTTP 400
\* {"error": "Missing 'prompt' string in body"}.
C6_InvalidPromptIs400 ==
    \A r \in Reqs :
        (pc[r] = "done" /\ LacksPrompt(reqBody[r])) =>
            /\ response[r].status = 400
            /\ response[r].error = "Missing 'prompt' string in body"

\* the outputs of a succeeded job that hold no text
EmptyOutputs == {JUndef, JNull, JStr(<<>>), JArr(<<>>), JArr(<< <<>> >>)}

\* C7: no adapter returns Success with an empty text (nor with no text at
\* all), no 200 carries one, and a succeeded job whose output is absent,
\* null, "", [] or [""] makes replicate fail with "empty output".
C7_NoEmptySuccess ==
    \A r \in Reqs :
        /\ Succeeded(r) => compl[r].val.text # JStr(<<>>) /\ Truthy(compl[r].val.text)
        /\ (response[r].status = 200 /\ response[r].json) =>
              response[r].text # JStr(<<>>) /\ Truthy(response[r].text)
        /\ (pc[r] = "done" /\ body[r].status = JStr(<<"succeeded">>) /\ body[r].output \in EmptyOutputs) =>
              /\ compl[r] = Return(Failure("replicate", "Error: Replicate empty output"))
              /\ response[r].status = 502

C7_Witness ==
    /\ pc["r1"] = "done"
    /\ body["r1"].status = JStr(<<"succeeded">>)
    /\ body["r1"].output = JArr(<< <<>> >>)
    /\ response["r1"].status = 502
    /\ response["r1"].attempts[5].error = "Error: Replicate empty output"

\* the call of request r ended on a parsed body (a 2xx response that was JSON)
EndedOnBody(r) == Returned(r) /\ body[r].shape \in {"object", "array", "null"}

\* the value at the place adapter p takes its text from in body d: the
\* message content, the first part's text, the first recognised Hugging Face
\* field, or the output of a succeeded job (an array joined by newlines);
\* undefined where there is none
FieldText(p, d) ==
    CASE d.shape = "null" -> JUndef
      [] p \in {"openai", "openrouter"} -> d.content
      [] p = "gemini" -> d.text
      [] p = "huggingface" ->
            IF Truthy(d.generated_text) THEN d.generated_text
            ELSE IF d.shape = "array" /\ Truthy(d.summary_text) THEN d.summary_text
            ELSE JUndef
      [] p = "replicate" ->
            IF d.status # JStr(<<"succeeded">>) THEN JUndef
            ELSE IF d.output.t = "array" THEN JStr(Join(d.output.a, NL))
            ELSE d.output

Blank(v) == v.t = "string" /\ v.s # <<>> /\ IsWhitespace(v.s)

\* C8 as stated: a whitespace-only extracted text makes the adapter fail, and
\* any other non-empty text is returned unchanged.
C8_WhitespaceFails ==
    \A r \in Reqs :
        EndedOnBody(r) =>
            LET p == compl[r].val.provider
                t == FieldText(p, body[r])
            IN  /\ Blank(t) => Failed(r)
                /\ (t.t = "string" /\ ~IsWhitespace(t.s)) => compl[r].val = Success(p, t)

\* C8 amended: only the empty text makes the adapter fail; every non-empty
\* extracted text, whitespace-only or not, is returned unchanged as Success.
C8_NonEmptyTextKept ==
    \A r \in Reqs :
        EndedOnBody(r) =>
            LET p == compl[r].val.provider
                t == FieldText(p, body[r])
            IN  /\ (t.t = "string" /\ t.s # <<>>) => compl[r].val = Success(p, t)
                /\ (t = JStr(<<>>) /\ p \in {"openai", "openrouter", "gemini"}) =>
                      compl[r].val = Failure(p, "Error: " \o Label(p) \o " empty response")
                /\ (t = JStr(<<>>) /\ p = "replicate") =>
                      compl[r].val = Failure(p, "Error: Replicate empty output")

C8_Witness ==
    /\ pc["r1"] = "done"
    /\ body["r1"].output = JArr(<< <<>>, <<>> >>)
    /\ response["r1"].status = 200
    /\ response["r1"].provider = "replicate"
    /\ response["r1"].text = JStr(<<NL>>)

\* the body has nothing at the place adapter p takes its text from
NoTextField(p, d) == FieldText(p, d) \in {JUndef, JNull}

MovedOn(r, p) == pc[r] = "loop" /\ k[r] = IndexOf(p) + 1

EndStatuses == {JStr(<<"failed">>), JStr(<<"canceled">>)}

C10_State ==
    \A r \in Reqs :
        /\ (pc[r] = "done" /\ body[r].status \in EndStatuses) =>
              /\ compl[r] = Return(Failure("replicate", "Error: Replicate " \o body[r].status.s[1]))
              /\ response[r].status = 502
              /\ response[r].attempts[5] = [provider |-> "replicate", error |-> "Error: Replicate " \o body[r].status.s[1]]
              /\ reads[r] >= 1
              /\ delays[r] = reads[r] - 1
        /\ pc[r] = "delay" => body[r].status \notin EndStatuses

C10_Step ==
    \A r \in Reqs :
        /\ pc[r] = "done" => pc'[r] = "done" /\ reads'[r] = reads[r] /\ delays'[r] = delays[r]
        /\ (pc[r] = "polljson" /\ body'[r].status \in EndStatuses) =>
              pc'[r] = "done" /\ reads'[r] = reads[r] /\ delays'[r] = delays[r]

\* C10: the status read that reports failed or canceled ends the adapter in
\* that step with the Failure "Replicate <status>": no delay is started for
\* it (delays = reads - 1), a delay only ever follows a read that reported
\* neither, and once the request is answered no read or delay is added,
\* whatever is left of the 30 reads.
C10_FailedEndsPolling == [](C10_State) /\ [][C10_Step]_vars

C10_Witness ==
    /\ pc["r1"] = "done"
    /\ body["r1"].status = JStr(<<"canceled">>)
    /\ reads["r1"] = 2
    /\ delays["r1"] = 1
    /\ response["r1"].status = 502

\* the handler went past the OPTIONS test and awaited req.json()
NotPreflight(r) == reqBody[r] # NoBody

ResponseStatuses == {200, 400, 502, 500}

C11_State ==
    \A r \in Reqs :
        /\ (pc[r] = "done") <=> (response[r] # NoResponse)
        /\ (pc[r] = "done" /\ NotPreflight(r)) =>
              /\ response[r].json
              /\ response[r].status \in ResponseStatuses
              /\ response[r].status = 200 =>
                    response[r].provider \in Providers /\ response[r].text.t = "string"
              /\ response[r].status = 400 => response[r].error = "Missing 'prompt' string in body"
              /\ response[r].status = 502 => response[r].error = "All providers failed"
              /\ response[r].status = 500 =>
                    /\ response[r].error = "Unexpected error"
                    /\ response[r].details # NoError
              /\ ~reqBody[r].parsed =>
                    /\ response[r].status = 500
                    /\ response[r].details = "SyntaxError: Unexpected end of JSON input"

C11_Step ==
    \A r \in Reqs :
        /\ response[r] # NoResponse => response'[r] = response[r]
        /\ pc[r] = "done" => pc'[r] = "done"

\* C11: a request that is not an OPTIONS preflight is answered exactly once
\* (a Response exists exactly when the handler is done, and is never replaced),
\* with a JSON body and one of the statuses 200, 400, 502, 500; a fault in the
\* handler itself, such as a body that does not parse, is answered with 500
\* "Unexpected error" and the fault's text as details.
C11_OneJsonResponse == [](C11_State) /\ [][C11_Step]_vars

C11_Witness ==
    /\ pc["r1"] = "done"
    /\ reqBody["r1"].shape = "text"
    /\ response["r1"].status = 500
    /\ response["r1"].error = "Unexpected error"
    /\ response["r1"].details = "SyntaxError: Unexpected end of JSON input"

\* the handler is suspended inside an adapter call: one fetch, body read or
\* delay of that adapter is outstanding
InCall(r) == pc[r] \in {"fetch", "json", "pollfetch", "polljson", "delay"}

Running(r) == pc[r] = "loop" \/ InCall(r)

\* the providers whose failure the handler has logged
Logged(r) == {results[r][j].provider : j \in 1..Len(results[r])}

\* adapters that were called and have not returned
Open(r) == {p \in Providers : invoked[r][p] > 0 /\ p \notin Logged(r)}

C12_State ==
    \A r \in Reqs :
        /\ Running(r) =>
              /\ k[r] \in 1..Len(attempts)
              /\ Len(results[r]) = k[r] - 1
              /\ \A j \in 1..Len(attempts) :
                    /\ j < k[r] => invoked[r][attempts[j]] = 1 /\ results[r][j].provider = attempts[j]
                    /\ j > k[r] => invoked[r][attempts[j]] = 0 /\ calls[r][attempts[j]] = 0
              /\ Open(r) = IF InCall(r) THEN {attempts[k[r]]} ELSE {}
              /\ (reads[r] > 0 \/ delays[r] > 0) => attempts[k[r]] = "replicate" /\ InCall(r)
        /\ pc[r] \in {"pollfetch", "polljson", "delay"} => attempts[k[r]] = "replicate"

C12_Step ==
    \A r \in Reqs :
        /\ \A p \in Providers :
              /\ invoked'[r][p] > invoked[r][p] =>
                    /\ pc[r] = "loop"
                    /\ Open(r) = {}
                    /\ p = attempts[k[r]]
                    /\ k[r] > 1 => compl[r] = Return(Failure(attempts[k[r] - 1], results[r][k[r] - 1].error))
              /\ calls'[r][p] > calls[r][p] => Open(r) = {} /\ p = attempts[k[r]] /\ invoked'[r][p] = 1
        /\ reads'[r] > reads[r] => pc[r] \in {"json", "delay"} /\ Open(r) = {"replicate"}
        /\ delays'[r] > delays[r] => pc[r] = "polljson" /\ Open(r) = {"replicate"}
        /\ (Running(r) /\ k'[r] # k[r]) => InCall(r) \/ Open(r) = {}

\* C12: while a request is handled, the adapters before the one the loop is
\* at have each been called once and have returned (their failure is logged),
\* the adapters after it have not been called, and at most that one adapter
\* is called and not returned; an adapter is called only when no adapter is
\* open and the one before it has returned its Failure; a fetch, status read
\* or delay is started only by the one open adapter, and status reads and
\* delays only inside replicate's call, which is still open after them.
C12_NoOverlap == [](C12_State) /\ [][C12_Step]_vars

C12_Witness ==
    /\ pc["r1"] = "delay"
    /\ attempts[k["r1"]] = "replicate"
    /\ reads["r1"] = 2
    /\ Len(results["r1"]) = 4
    /\ calls["r1"]["openai"] = 1
    /\ calls["r1"]["huggingface"] = 1
    /\ Open("r1") = {"replicate"}

MissingUrl == Failure("replicate", "Error: Replicate missing status URL")

\* a parsed 2xx submission body without `urls.get` (a status body that ends
\* the call always has a status, and a null status body follows a read)
LacksUrl(r) ==
    /\ ~Truthy(StatusUrlOf(body[r]))
    /\ \/ body[r].shape = "object" /\ body[r].status = JUndef
       \/ body[r].shape = "null" /\ reads[r] = 0

C13_State ==
    \A r \in Reqs :
        /\ (pc[r] = "done" /\ Failed(r) /\ compl[r].val.provider = "replicate" /\ LacksUrl(r)) =>
              /\ compl[r].val = MissingUrl
              /\ calls[r]["replicate"] = 1
              /\ reads[r] = 0
              /\ delays[r] = 0
              /\ polled[r] = {}
              /\ response[r].status = 502
              /\ response[r].attempts[5] = EntryOf(MissingUrl)
        /\ (Failed(r) /\ compl[r].val = MissingUrl) =>
              pc[r] = "done" /\ reads[r] = 0 /\ delays[r] = 0 /\ LacksUrl(r)
        /\ reads[r] > 0 => polled[r] = {JobUrl(r)}
        /\ pc[r] \in {"pollfetch", "polljson", "delay"} => Truthy(endpoint[r])

C13_Step ==
    \A r \in Reqs :
        (pc[r] = "json" /\ attempts[k[r]] = "replicate" /\ body'[r].shape \in {"object", "null"}
           /\ ~Truthy(StatusUrlOf(body'[r]))) =>
            pc'[r] = "done" /\ compl'[r].val = MissingUrl /\ reads'[r] = 0 /\ delays'[r] = 0

\* C13: when replicate's 2xx submission body parses but has no status URL
\* (no `urls.get`, an empty one, or a null body), the adapter returns the
\* Failure "Replicate missing status URL" in the step that read the body, the
\* request ends with 502, and no status read and no delay was ever started; a
\* status read is only ever issued against the submission's own URL.
C13_MissingStatusUrl == [](C13_State) /\ [][C13_Step]_vars

C13_Witness ==
    /\ pc["r1"] = "done"
    /\ body["r1"].shape = "object"
    /\ body["r1"].urlsGet = JStr(<<>>)
    /\ compl["r1"].val = MissingUrl
    /\ calls["r1"]["replicate"] = 1
    /\ reads["r1"] = 0
    /\ delays["r1"] = 0

\* no provider twice in a log
NoRepeat(log) ==
    \A a, b \in 1..Len(log) : a # b => log[a].provider # log[b].provider

C14_State ==
    \A r \in Reqs :
        /\ \A p \in Providers :
              /\ invoked[r][p] <= 1
              /\ calls[r][p] <= invoked[r][p]
        /\ NoRepeat(results[r])
        /\ NoRepeat(response[r].attempts)

C14_Step ==
    \A r \in Reqs :
        /\ \A p \in Logged(r) :
              invoked'[r][p] = invoked[r][p] /\ calls'[r][p] = calls[r][p]
        /\ (Running(r) /\ Running(r)') => k'[r] >= k[r]
        /\ (InCall(r) /\ InCall(r)') => k'[r] = k[r] /\ calls'[r] = calls[r]
        /\ pc[r] = "done" => invoked'[r] = invoked[r] /\ calls'[r] = calls[r]

\* C14: in one request every adapter function is called at most once and
\* issues at most one fetch() of its own (for replicate the submission; its
\* status reads are counted apart); no provider is logged twice; once an
\* adapter's Failure is logged it is never called again and issues nothing,
\* the loop index never goes back, and inside a call no second fetch() is
\* issued.
C14_NoRetries == [](C14_State) /\ [][C14_Step]_vars

C14_Witness ==
    /\ pc["r1"] = "done"
    /\ response["r1"].status = 502
    /\ response["r1"].attempts[1].error = "Error: OpenAI HTTP 500"
    /\ response["r1"].attempts[5].error = "TypeError: error sending request"
    /\ \A p \in Providers : invoked["r1"][p] = 1 /\ calls["r1"][p] = 1
    /\ reads["r1"] = 0

Polling(r) == pc[r] \in {"pollfetch", "polljson", "delay"}

\* how a call of tryReplicate that reached its loop can end
PollingEnds ==
    {"Error: Replicate failed", "Error: Replicate canceled", "Error: Replicate empty output",
     "Error: Replicate timeout", "TypeError: error sending request",
     "SyntaxError: Unexpected token", "TypeError: Cannot read properties of null"}

C15_State ==
    \A r \in Reqs :
        /\ reads[r] <= MaxPolls
        /\ delays[r] <= reads[r]
        /\ Polling(r) => i[r] = reads[r] - 1 /\ i[r] < MaxPolls
        /\ (pc[r] = "done" /\ reads[r] > 0) =>
              /\ Returned(r)
              /\ compl[r].val.provider = "replicate"
              /\ Failed(r) => compl[r].val.error \in PollingEnds

\* C15: a call of tryReplicate issues at most 30 status reads, and, every
\* awaited call and delay settling, a call that is in its polling loop ends
\* with a Success or one of the loop's Failures and the request is answered;
\* every request past its OPTIONS test is eventually answered.
C15_PollingTerminates ==
    /\ [](C15_State)
    /\ \A r \in Reqs : Polling(r) ~> (pc[r] = "done" /\ Returned(r))
    /\ \A r \in Reqs : (pc[r] = "reqjson") ~> (pc[r] = "done" /\ response[r] # NoResponse)

C15_Witness ==
    /\ pc["r1"] = "done"
    /\ reads["r1"] = MaxPolls
    /\ delays["r1"] = MaxPolls
    /\ compl["r1"].val = Failure("replicate", "Error: Replicate timeout")
    /\ response["r1"].status = 502

\* everything the model holds for request r
StateOf(r) ==
    <<pc[r], reqBody[r], k[r], results[r], compl[r], endpoint[r], i[r], body[r],
      response[r], invoked[r], calls[r], reads[r], polled[r], delays[r], check[r]>>

\* some other request is suspended at an await too
Interleaved(r) == \E q \in Reqs \ {r} : Running(q)

C16_State ==
    \A r \in Reqs :
        /\ polled[r] \subseteq {JobUrl(r)}
        /\ endpoint[r] \in {JUndef, JStr(JobUrl(r))}
        /\ Running(r) =>
              /\ Len(results[r]) = k[r] - 1
              /\ \A j \in 1..Len(results[r]) :
                    /\ results[r][j].provider = attempts[j]
                    /\ invoked[r][attempts[j]] = 1
                    /\ results[r][j].error \in FailureReasons(attempts[j])
        /\ response[r].status = 502 =>
              /\ Len(response[r].attempts) = Len(attempts)
              /\ NoRepeat(response[r].attempts)
              /\ \A j \in 1..Len(attempts) :
                    /\ response[r].attempts[j].provider = attempts[j]
                    /\ response[r].attempts[j].error \in FailureReasons(attempts[j])
              /\ response[r].attempts[Len(attempts)] = EntryOf(compl[r].val)
              /\ \A p \in Providers : invoked[r][p] = 1
        /\ response[r].status # 502 => response[r].attempts = <<>>

C16_Step ==
    \A r \in Reqs :
        StateOf(r)' # StateOf(r) =>
            /\ \A q \in Reqs \ {r} : StateOf(q)' = StateOf(q)
            /\ env' = env
            /\ results'[r] # results[r] =>
                  \/ results'[r] = <<>>
                  \/ results'[r] = Append(results[r], EntryOf(compl'[r].val))

\* C16: with two requests in flight and their steps interleaved at every
\* await, a step of one request changes nothing held for the other; a
\* request's log grows only by the Failure its own adapter call just
\* returned, holds one entry per adapter it has called, in order, and a 502
\* lists the five of them; every status read of a request goes to the URL of
\* its own job.
C16_Isolation == [](C16_State) /\ [][C16_Step]_vars

C16_Witness ==
    /\ pc["r1"] = "delay"
    /\ pc["r2"] = "polljson"
    /\ reads["r1"] = 3
    /\ reads["r2"] = 5
    /\ polled["r1"] = {JobUrl("r1")}
    /\ polled["r2"] = {JobUrl("r2")}
    /\ Len(results["r1"]) = 4

\* the Response of the edge function has reached the page
Answered == client.pc \in {"chat", "done"} /\ client.invokes = 1 /\ client.error # FetchFailed.name

C17_Common ==
    /\ client.chats <= 1
    /\ client.invokes <= 1
    /\ client.chats > 0 => client.invokes = 1 /\ client.puter /\ ~EmptyPrompt(client.prompt)
    /\ EmptyPrompt(client.prompt) => client.invokes = 0 /\ pc[TheRequest] = "off"

Untouched(r) ==
    /\ \A p \in Providers : invoked[r][p] = 0 /\ calls[r][p] = 0
    /\ reads[r] = 0
    /\ delays[r] = 0
    /\ polled[r] = {}

\* C18: an adapter is called, or anything sent to a provider, only for a
\* request whose body parsed to an object with a non-empty string prompt; a
\* request not yet validated, an OPTIONS preflight (answered 200 with no
\* body), a request answered 400 and one whose body did not parse (answered
\* 500) have called no adapter and sent nothing.
C18_ValidatedFirst ==
    \A r \in Reqs :
        /\ ~Untouched(r) =>
              /\ reqBody[r].parsed
              /\ reqBody[r].shape = "object"
              /\ reqBody[r].prompt.t = "string"
              /\ reqBody[r].prompt.s # <<>>
        /\ pc[r] \in {"off", "idle", "reqjson"} => Untouched(r)
        /\ (pc[r] = "done" /\ ~NotPreflight(r)) =>
              response[r] = PreflightResponse /\ ~response[r].json /\ Untouched(r)
        /\ (pc[r] = "done" /\ response[r].status = 400) => Untouched(r)
        /\ (pc[r] = "done" /\ NotPreflight(r) /\ ~reqBody[r].parsed) =>
              response[r].status = 500 /\ Untouched(r)
        /\ (pc[r] = "done" /\ NotPreflight(r) /\ InvalidPrompt(reqBody[r].prompt)) => Untouched(r)

C18_Witness ==
    /\ pc["r1"] = "done"
    /\ reqBody["r1"].prompt = JNum(1)
    /\ response["r1"].status = 400
    /\ Untouched("r1")

FinalStatuses == {JStr(<<"succeeded">>), JStr(<<"failed">>), JStr(<<"canceled">>)}

\* the status read that just settled was treated as pending: no further
\* read is counted for it and one delay is started
TreatedAsPending(r) ==
    /\ pc'[r] = "delay"
    /\ reads'[r] = reads[r]
    /\ delays'[r] = delays[r] + 1
    /\ delays'[r] = reads'[r]
    /\ compl'[r] = NoCompl

\* the delay is followed by the next status read, or by the timeout after
\* the 30th
PolledOn(r) ==
    IF reads[r] < MaxPolls
    THEN pc'[r] = "pollfetch" /\ reads'[r] = reads[r] + 1 /\ delays'[r] = delays[r]
    ELSE /\ pc'[r] = "done"
         /\ compl'[r].val = Failure("replicate", "Error: Replicate timeout")
         /\ reads'[r] = reads[r] /\ delays'[r] = delays[r]

C19_DelayState ==
    \A r \in Reqs :
        pc[r] = "delay" =>
            /\ body[r].status \notin FinalStatuses
            /\ check[r] \in {200, 500}
            /\ delays[r] = reads[r]

\* C19 as claimed: every status body that parses and whose status is not
\* succeeded, failed or canceled, the body `null` among them, is pending.
C19_PendingUnlessFinal ==
    /\ [](C19_DelayState)
    /\ [][\A r \in Reqs :
            /\ (pc[r] = "polljson" /\ pc'[r] # "polljson"
                 /\ body'[r].shape \in {"object", "null"} /\ body'[r].status \notin FinalStatuses) =>
                    TreatedAsPending(r)
            /\ (pc[r] = "delay" /\ pc'[r] # "delay") => PolledOn(r)]_vars

\* C19, amended: a status body that is a JSON object (any JSON value but
\* null) with a status other than succeeded, failed or canceled, or with
\* none, is pending whatever the HTTP status of the read: the read is one of
\* the 30, one delay follows it, and after the delay the next read is issued
\* (the timeout after the 30th).  The body `null` ends the call with the
\* Failure "TypeError: Cannot read properties of null", as a body that does
\* not parse or a network fault do with theirs.
C19_PendingUnlessFinalOrNull ==
    /\ [](C19_DelayState)
    /\ [][\A r \in Reqs :
            /\ (pc[r] = "polljson" /\ pc'[r] # "polljson") =>
                  /\ (body'[r].shape = "object" /\ body'[r].status \notin FinalStatuses) =>
                        TreatedAsPending(r)
                  /\ body'[r].shape \in {"null", "none"} =>
                        /\ pc'[r] = "done"
                        /\ delays'[r] = delays[r]
                        /\ compl'[r].val.error =
                              IF body'[r].shape = "null"
                              THEN "TypeError: Cannot read properties of null"
                              ELSE "SyntaxError: Unexpected token"
            /\ (pc[r] = "pollfetch" /\ pc'[r] = "done") =>
                  compl'[r].val = Failure("replicate", "TypeError: error sending request")
            /\ (pc[r] = "delay" /\ pc'[r] # "delay") => PolledOn(r)]_vars

C19_Witness ==
    /\ pc["r1"] = "delay"
    /\ check["r1"] = 500
    /\ body["r1"].shape = "object"
    /\ body["r1"].status = JUndef
    /\ reads["r1"] = 3
    /\ delays["r1"] = 3

\* the adapters called so far, in order
Called(r) == SelectSeq(attempts, LAMBDA p : invoked[r][p] > 0)

\* the providers of a log, in order
ProvidersOf(log) == [j \in 1..Len(log) |-> log[j].provider]

\* every entry of the log is a Failure of its provider
AllFailures(log) ==
    \A j \in 1..Len(log) : log[j].error # NoError /\ log[j].error \in FailureReasons(log[j].provider)

C20_State ==
    \A r \in Reqs :
        /\ (response[r].status = 200 /\ response[r].json) =>
              /\ Succeeded(r)
              /\ compl[r].val = Success(response[r].provider, response[r].text)
              /\ invoked[r][response[r].provider] = 1
        /\ response[r].status = 502 =>
              /\ \A p \in Providers : invoked[r][p] = 1
              /\ Failed(r)
              /\ ProvidersOf(response[r].attempts) = attempts
              /\ AllFailures(response[r].attempts)
              /\ response[r].attempts[Len(attempts)] = EntryOf(compl[r].val)
        /\ (pc[r] = "done" /\ Succeeded(r)) => response[r].status = 200
        /\ (pc[r] = "done" /\ Failed(r)) =>
              response[r].status = 502 /\ compl[r].val.provider = attempts[Len(attempts)]
        /\ pc[r] = "loop" => ProvidersOf(results[r]) = Called(r)
        /\ InCall(r) => ProvidersOf(results[r]) \o <<attempts[k[r]]>> = Called(r)
        /\ Running(r) => AllFailures(results[r]) /\ response[r] = NoResponse

C20_Step ==
    \A r \in Reqs :
        (Running(r) /\ results'[r] # results[r]) =>
            \/ pc'[r] = "done" /\ results'[r] = <<>>
            \/ /\ compl'[r].kind = "return"
               /\ ~compl'[r].val.ok
               /\ compl'[r].val.provider = attempts[k[r]]
               /\ results'[r] = Append(results[r], EntryOf(compl'[r].val))

\* C20: a 200 is returned only with a Success of the adapter it names, and
\* every Success ends in a 200; a 502 is returned only when all five
\* adapters were called and each returned a Failure, which it lists in order,
\* and every request ending on a Failure ends in that 502; while the loop
\* runs nothing is returned and the log holds exactly the Failures of the
\* adapters called and returned so far, in order, growing by one entry each
\* time the adapter the loop is at returns a Failure.
C20_StatusFollowsOutcomes == [](C20_State) /\ [][C20_Step]_vars

C20_Witness ==
    /\ pc["r1"] = "loop"
    /\ k["r1"] = 4
    /\ ProvidersOf(results["r1"]) = <<"openai", "openrouter", "gemini">>
    /\ results["r1"][2].error = "Error: OpenRouter empty response"
    /\ results["r1"][3].error = "GOOGLE_GEMINI_API_KEY not set"
    /\ Called("r1") = <<"openai", "openrouter", "gemini">>

====
